---- MODULE Spec2Model ----
(***************************************************************************)
(* mp3extra: a command line tool that embeds a cover image and lyrics in   *)
(* the ID3v2 tag of one MP3 file.  The repository holds two revisions of   *)
(* main.go (src/main.go and src/unnamed/part_000); the variable build      *)
(* says which one runs.  One run of main() is a sequence of steps, the     *)
(* variable pc is the position of the run.                                 *)
(***************************************************************************)
EXTENDS Integers, Sequences, FiniteSets, TLC

VARIABLES
    build,        \* which revision of main.go runs
    mp3File,      \* flag.Arg(0)
    embedImage,   \* -image
    embedLyrics,  \* -lyrics
    embedLang,    \* -lang
    dryRun,       \* -dryrun
    netUp,        \* environment: FALSE when every network request fails
    file0,        \* the tag stored in the target file when the run starts
    file,         \* the tag stored in the target file now
    pc,           \* position of the run in main()
    tag,          \* the opened tag (in memory); empty before id3v2.Open
    requests,     \* the HTTP GET requests sent so far, in order
    reads,        \* the paths given to os.ReadFile so far, in order
    opens,        \* number of calls of id3v2.Open
    stdout,       \* the lines printed so far
    saveCalls,    \* number of calls of tag.Save
    artResp,      \* what the artwork search answered (fetchAlbumArtURL)
    lrcResp,      \* what the lyrics search answered (downloadLrc)
    gotImage,     \* the image bytes obtained from the image source
    gotLyrics,    \* the lyrics text obtained from the lyrics source
    outcome,      \* "running", "success", "usage" or the kind of the fatal error
    exitCode      \* exit status of the process, -1 while it runs

vars == <<build, mp3File, embedImage, embedLyrics, embedLang, dryRun, netUp,
          file0, file, pc, tag, requests, reads, opens, stdout, saveCalls,
          artResp, lrcResp, gotImage, gotLyrics, outcome, exitCode>>

flags == <<build, mp3File, embedImage, embedLyrics, embedLang, dryRun, netUp, file0>>

(***************************************************************************)
(* Bounds of the model.                                                    *)
(***************************************************************************)
MaxFrames  == 2   \* frames of one kind stored in the file at the start
MaxResults == 1   \* entries of the artwork search's result list
MaxRecords == 2   \* records of the lyrics search's answer

None == "<none>"

(***************************************************************************)
(* Strings.  TLC evaluates Len, SubSeq and \o on strings.                  *)
(***************************************************************************)
RECURSIVE QueryEscape(_)
QueryEscape(s) ==
    IF s = "" THEN ""
    ELSE (IF SubSeq(s, 1, 1) = " " THEN "+" ELSE SubSeq(s, 1, 1))
         \o QueryEscape(SubSeq(s, 2, Len(s)))

\* strings.Index: the least 0-based position where sub occurs in s, or -1
Index(s, sub) ==
    LET hits == {i \in 1..(Len(s) - Len(sub) + 1) : SubSeq(s, i, i + Len(sub) - 1) = sub}
    IN  IF hits = {} THEN -1
        ELSE (CHOOSE i \in hits : \A j \in hits : i <= j) - 1

RECURSIVE ReplaceAll(_, _, _)
ReplaceAll(s, old, new) ==
    LET i == Index(s, old)
    IN  IF i < 0 THEN s
        ELSE SubSeq(s, 1, i) \o new
             \o ReplaceAll(SubSeq(s, i + Len(old) + 1, Len(s)), old, new)

\* strings.Replace(s, old, new, 1)
Replace(s, old, new) ==
    LET i == Index(s, old)
    IN  IF i < 0 THEN s
        ELSE SubSeq(s, 1, i) \o new \o SubSeq(s, i + Len(old) + 1, Len(s))

coverArtUrl(artist, title) ==
    "https://itunes.apple.com/search?term=" \o QueryEscape(artist \o " " \o title)
        \o "&media=music&limit=1"

lrclibUrl(artist, title) ==
    "https://lrclib.net/api/search?q=" \o QueryEscape(artist \o " " \o title)

(***************************************************************************)
(* Frames and tags (the id3v2 calls main() makes).                         *)
(***************************************************************************)
FrameIDs == {"APIC", "COMM", "TIT2", "TPE1", "USLT"}

EmptyTag == [id \in FrameIDs |-> <<>>]

GetFrames(t, id) == t[id]

DeleteFrames(t, id) == [t EXCEPT ![id] = <<>>]

AddFrame(t, id, f) == [t EXCEPT ![id] = Append(@, f)]

GetTextFrame(t, id) == IF Len(t[id]) = 0 THEN "" ELSE t[id][1].Text

Artist(t) == GetTextFrame(t, "TPE1")

Title(t) == GetTextFrame(t, "TIT2")

(***************************************************************************)
(* The frames a target file holds at the start, and what the environment   *)
(* (file system, the two remote services) can answer.                      *)
(***************************************************************************)
TextFrame(text) == [type |-> "TextFrame", Encoding |-> "UTF-8", Text |-> text]

CommentPool ==
    << [type |-> "CommentFrame", Encoding |-> "UTF-16", Language |-> "eng",
        Description |-> "", Text |-> "ripped by someone"],
       [type |-> "CommentFrame", Encoding |-> "ISO-8859-1", Language |-> "jpn",
        Description |-> "note",
        Text |-> "a comment whose text is a good deal longer than the seventy characters that are displayed"],
       [type |-> "CommentFrame", Encoding |-> "UTF-8", Language |-> "deu",
        Description |-> "third", Text |-> "drei"] >>

PicturePool ==
    << [type |-> "PictureFrame", Encoding |-> "ISO-8859-1", MimeType |-> "image/png",
        PictureType |-> "PTFrontCover", Description |-> "old front", Picture |-> "old-png-bytes"],
       [type |-> "PictureFrame", Encoding |-> "UTF-8", MimeType |-> "image/jpeg",
        PictureType |-> "PTBackCover", Description |-> "old back", Picture |-> "old-jpeg-bytes"],
       [type |-> "PictureFrame", Encoding |-> "UTF-8", MimeType |-> "image/jpeg",
        PictureType |-> "PTArtistPerformer", Description |-> "old artist", Picture |-> "old-artist-bytes"] >>

LyricsPool ==
    << [type |-> "UnsynchronisedLyricsFrame", Encoding |-> "UTF-16", Language |-> "eng",
        ContentDescriptor |-> "", Lyrics |-> "old lyrics"],
       [type |-> "UnsynchronisedLyricsFrame", Encoding |-> "UTF-8", Language |-> "jpn",
        ContentDescriptor |-> "Lyrics", Lyrics |-> "old lyrics, jpn"],
       [type |-> "UnsynchronisedLyricsFrame", Encoding |-> "UTF-8", Language |-> "deu",
        ContentDescriptor |-> "Lyrics", Lyrics |-> "old lyrics, deu"] >>

\* the first n frames of a pool
FirstFrames(pool, n) == SubSeq(pool, 1, IF n < Len(pool) THEN n ELSE Len(pool))

\* the tags a target file can hold: nc comment frames, and nm picture frames
\* and lyrics frames, next to its artist and title
StoredTags ==
    { [id \in FrameIDs |->
          CASE id = "COMM" -> FirstFrames(CommentPool, nc)
            [] id = "APIC" -> FirstFrames(PicturePool, nm)
            [] id = "USLT" -> FirstFrames(LyricsPool, nm)
            [] id = "TPE1" -> <<TextFrame("A")>>
            [] id = "TIT2" -> <<TextFrame("T")>>] :
      nc \in 0..MaxFrames, nm \in 0..MaxFrames }

ImagePaths  == {"cover.jpg"}
LyricsPaths == {"lyrics.lrc"}
Languages   == {"jpn", "eng"}
Builds      == {"main.go", "part_000"}

ImageBytes == {"jpeg-bytes", ""}       \* what an image file or an artwork URL can hold
FileLyrics == {"[00:01.00]from the file"}   \* what a lyrics file can hold
ContentTypes == {"image/jpeg"}         \* the content-type header of the artwork response

ArtworkURLs ==
    { "https://is1.example/a/100x100bb.jpg",
      "https://is1.example/100x100/100x100bb.jpg",
      "https://is1.example/a/source.jpg" }

ArtworkResults == UNION { [1..k -> ArtworkURLs] : k \in 0..MaxResults }

LrcRecords ==
    { [ArtistName |-> "A",  TrackName |-> "T",  SyncedLyrics |-> "[00:01.00]L1"],
      [ArtistName |-> "A",  TrackName |-> "T",  SyncedLyrics |-> "[00:02.00]L2"],
      [ArtistName |-> "a",  TrackName |-> "T",  SyncedLyrics |-> "[00:03.00]L3"],
      [ArtistName |-> "A",  TrackName |-> "T ", SyncedLyrics |-> "[00:04.00]L4"] }

LrcResults == UNION { [1..k -> LrcRecords] : k \in 0..MaxRecords }

NoResp == [status |-> "none", results |-> <<>>]

Init ==
    /\ build \in Builds
    /\ mp3File \in {"", "song.mp3"}
    /\ embedImage \in {"", "auto"} \cup ImagePaths
    /\ embedLyrics \in {"", "auto"} \cup LyricsPaths
    /\ embedLang \in Languages
    /\ dryRun \in BOOLEAN
    /\ netUp \in BOOLEAN
    /\ file0 \in (IF mp3File = "" THEN {EmptyTag} ELSE StoredTags)
    /\ file = file0
    /\ pc = "parse"
    /\ tag = EmptyTag
    /\ requests = <<>>
    /\ reads = <<>>
    /\ opens = 0
    /\ stdout = <<>>
    /\ saveCalls = 0
    /\ artResp = NoResp
    /\ lrcResp = NoResp
    /\ gotImage = None
    /\ gotLyrics = None
    /\ outcome = "running"
    /\ exitCode = -1

(***************************************************************************)
(* Leaving main(): log.Fatal / os.Exit(1), or falling off its end.         *)
(***************************************************************************)
FatalContinues(kind) == /\ pc' = "save"
                        /\ outcome' = kind
                        /\ exitCode' = 1

Fatal(kind) == /\ pc' = "done"
               /\ outcome' = kind
               /\ exitCode' = 1

Goto(p) == /\ pc' = p
           /\ UNCHANGED <<outcome, exitCode>>

\* the two revisions print different words
Msg(inMain, inPart) == IF build = "main.go" THEN inMain ELSE inPart

(***************************************************************************)
(* main(): the arguments and the opening of the file.                      *)
(***************************************************************************)
ParseArgsNoCheck ==
    /\ pc = "parse"
    /\ Goto("open")
    /\ UNCHANGED <<flags, file, tag, requests, reads, opens, stdout, saveCalls,
                   artResp, lrcResp, gotImage, gotLyrics>>

ParseArgs ==
    /\ pc = "parse"
    /\ IF mp3File = ""
       THEN /\ stdout' = Append(stdout, "Usage of mp3extra:")
            /\ pc' = "done"
            /\ outcome' = "usage"
            /\ exitCode' = 1
       ELSE /\ Goto("open")
            /\ UNCHANGED stdout
    /\ UNCHANGED <<flags, file, tag, requests, reads, opens, saveCalls,
                   artResp, lrcResp, gotImage, gotLyrics>>

Open ==
    /\ pc = "open"
    /\ opens' = opens + 1
    /\ \/ /\ tag' = file
          /\ Goto("print")
       \/ /\ Fatal("FileOpenError")
          /\ UNCHANGED tag
    /\ UNCHANGED <<flags, file, requests, reads, stdout, saveCalls,
                   artResp, lrcResp, gotImage, gotLyrics>>

(***************************************************************************)
(* The listing of the frames in a dry run.                                 *)
(***************************************************************************)
DisplayLen == 70

Sprint(v) ==
    "{" \o v.Encoding \o " " \o v.Language \o " " \o v.ContentDescriptor
        \o " " \o v.Lyrics \o "}"

Summary(v) ==
    CASE v.type = "TextFrame"    -> v.Text
      [] v.type = "CommentFrame" -> v.Text
      [] v.type = "PictureFrame" -> v.Description
      [] OTHER                   -> Sprint(v)

Truncate(s) == IF Len(s) > DisplayLen THEN SubSeq(s, 1, DisplayLen) \o "..." ELSE s

\* sort.Strings on the keys of tag.AllFrames()
SortedKeys(t) ==
    LET ks == {id \in FrameIDs : Len(t[id]) > 0}
        order == <<"APIC", "COMM", "TIT2", "TPE1", "USLT">>
        RECURSIVE pick(_)
        pick(i) == IF i > Len(order) THEN <<>>
                   ELSE (IF order[i] \in ks THEN <<order[i]>> ELSE <<>>) \o pick(i + 1)
    IN  pick(1)

FrameLines(t) ==
    LET ks == SortedKeys(t)
        line(k, v) == k \o ": " \o Truncate(Summary(v)) \o " [" \o v.type \o "]"
        RECURSIVE ofKey(_, _)
        ofKey(k, i) == IF i > Len(t[k]) THEN <<>>
                       ELSE <<line(k, t[k][i])>> \o ofKey(k, i + 1)
        RECURSIVE all(_)
        all(i) == IF i > Len(ks) THEN <<>> ELSE ofKey(ks[i], 1) \o all(i + 1)
    IN  all(1)

PrintFrames ==
    /\ pc = "print"
    /\ stdout' = IF dryRun THEN stdout \o FrameLines(tag) ELSE stdout
    /\ Goto("comment")
    /\ UNCHANGED <<flags, file, tag, requests, reads, opens, saveCalls,
                   artResp, lrcResp, gotImage, gotLyrics>>

(***************************************************************************)
(* The comment frame.                                                      *)
(***************************************************************************)
NormalizeComments(t, lang) ==
    LET comments == GetFrames(t, "COMM")
    IN  IF Len(comments) > 0
        THEN AddFrame(DeleteFrames(t, "COMM"), "COMM",
                      [type |-> "CommentFrame", Encoding |-> "ISO-8859-1",
                       Language |-> lang,
                       Description |-> comments[1].Description,
                       Text |-> comments[1].Text])
        ELSE t

FixComment ==
    /\ pc = "comment"
    /\ tag' = NormalizeComments(tag, embedLang)
    /\ Goto("image")
    /\ UNCHANGED <<flags, file, requests, reads, opens, stdout, saveCalls,
                   artResp, lrcResp, gotImage, gotLyrics>>

(***************************************************************************)
(* The cover image.                                                        *)
(***************************************************************************)
\* http.DetectContentType on the bytes an image file can hold
DetectContentType(b) ==
    CASE b = "jpeg-bytes" -> "image/jpeg"
      [] b = ""           -> "text/plain; charset=utf-8"
      [] OTHER            -> "application/octet-stream"

CoverPicture(b, ct) ==
    [type |-> "PictureFrame", Encoding |-> "ISO-8859-1", MimeType |-> ct,
     PictureType |-> "PTFrontCover", Description |-> "Cover Art", Picture |-> b]

EmbedPictureKeepOld(t, b, ct) == AddFrame(t, "APIC", CoverPicture(b, ct))

EmbedPicture(t, b, ct) ==
    AddFrame(DeleteFrames(t, "APIC"), "APIC", CoverPicture(b, ct))

\* main(): the branch on the image flag
EmbedImage ==
    /\ pc = "image"
    /\ IF embedImage = ""
       THEN /\ Goto("lyrics")
            /\ UNCHANGED <<tag, reads, stdout, gotImage>>
       ELSE IF embedImage = "auto"
       THEN IF dryRun
            THEN /\ stdout' = stdout \o <<"", Msg("Covert art: ", "Cover art URL: ")
                                              \o coverArtUrl(Artist(tag), Title(tag))>>
                 /\ Goto("lyrics")
                 /\ UNCHANGED <<tag, reads, gotImage>>
            ELSE /\ Goto("art_search")
                 /\ UNCHANGED <<tag, reads, stdout, gotImage>>
       ELSE IF dryRun
            THEN /\ stdout' = stdout \o <<"", Msg("Covert art: ", "Cover art from file: ") \o embedImage>>
                 /\ Goto("lyrics")
                 /\ UNCHANGED <<tag, reads, gotImage>>
            ELSE /\ reads' = Append(reads, embedImage)
                 /\ UNCHANGED stdout
                 /\ \/ /\ Fatal("FileReadError")
                       /\ UNCHANGED <<tag, gotImage>>
                    \/ \E b \in ImageBytes :
                          /\ gotImage' = b
                          /\ tag' = EmbedPicture(tag, b, DetectContentType(b))
                          /\ Goto("lyrics")
    /\ UNCHANGED <<flags, file, requests, opens, saveCalls, artResp, lrcResp, gotLyrics>>

\* fetchAlbumArtURL: the search request and the decoding of its answer
ArtSearch ==
    /\ pc = "art_search"
    /\ requests' = Append(requests, coverArtUrl(Artist(tag), Title(tag)))
    /\ \/ /\ artResp' = [status |-> "request failed", results |-> <<>>]
          /\ Fatal("NetworkError")
       \/ /\ netUp
          /\ artResp' = [status |-> "decode failed", results |-> <<>>]
          /\ Fatal("DecodeError")
       \/ /\ netUp
          /\ \E rs \in ArtworkResults :
                /\ artResp' = [status |-> "decoded", results |-> rs]
                /\ IF Len(rs) = 0 THEN Fatal("NotFoundError") ELSE Goto("art_download")
    /\ UNCHANGED <<flags, file, tag, reads, opens, stdout, saveCalls,
                   lrcResp, gotImage, gotLyrics>>

\* fetchAlbumArtURL: the request of the image, and main() embedding it
ArtDownload ==
    /\ pc = "art_download"
    /\ requests' = Append(requests, Replace(artResp.results[1], "100x100", "600x600"))
    /\ \/ /\ Fatal("NetworkError")
          /\ UNCHANGED <<tag, gotImage>>
       \/ /\ netUp
          /\ \E b \in ImageBytes, ct \in ContentTypes :
                /\ gotImage' = b
                /\ tag' = EmbedPicture(tag, b, ct)
                /\ Goto("lyrics")
    /\ UNCHANGED <<flags, file, reads, opens, stdout, saveCalls,
                   artResp, lrcResp, gotLyrics>>

(***************************************************************************)
(* The lyrics.                                                             *)
(***************************************************************************)
LyricsFrame(lang, lyrics) ==
    [type |-> "UnsynchronisedLyricsFrame", Encoding |-> "UTF-8", Language |-> lang,
     ContentDescriptor |-> "Lyrics", Lyrics |-> lyrics]

EmbedLyricsFrame(t, lang, lyrics) ==
    AddFrame(DeleteFrames(t, "USLT"), "USLT", LyricsFrame(lang, lyrics))

\* the condition under which the lyrics are fetched from the lyrics service:
\* src/main.go tests the image flag, src/unnamed/part_000 the lyrics flag
LyricsAuto ==
    IF build = "main.go" THEN embedImage = "auto" ELSE embedLyrics = "auto"

RECURSIVE ToLower(_)
ToLower(s) ==
    IF s = "" THEN ""
    ELSE (CASE SubSeq(s, 1, 1) = "A" -> "a"
            [] SubSeq(s, 1, 1) = "T" -> "t"
            [] OTHER -> SubSeq(s, 1, 1)) \o ToLower(SubSeq(s, 2, Len(s)))

FindLyricsFold(results, artist, title) ==
    LET hits == {i \in 1..Len(results) :
                    /\ ToLower(results[i].ArtistName) = ToLower(artist)
                    /\ ToLower(results[i].TrackName) = ToLower(title)}
    IN  IF hits = {} THEN [found |-> FALSE, lyrics |-> ""]
        ELSE [found |-> TRUE,
              lyrics |-> results[CHOOSE i \in hits : \A j \in hits : i <= j].SyncedLyrics]

\* downloadLrc: the scan of the decoded records
RECURSIVE FindLyricsFrom(_, _, _, _)
FindLyricsFrom(results, artist, title, i) ==
    IF i > Len(results) THEN [found |-> FALSE, lyrics |-> ""]
    ELSE IF results[i].ArtistName = artist /\ results[i].TrackName = title
         THEN [found |-> TRUE, lyrics |-> results[i].SyncedLyrics]
         ELSE FindLyricsFrom(results, artist, title, i + 1)

FindLyrics(results, artist, title) == FindLyricsFrom(results, artist, title, 1)

\* main(): the branch on the lyrics flag
EmbedLyrics ==
    /\ pc = "lyrics"
    /\ IF embedLyrics = ""
       THEN /\ Goto("save")
            /\ UNCHANGED <<tag, reads, stdout, gotLyrics>>
       ELSE IF LyricsAuto
       THEN /\ Goto("lrc_search")
            /\ UNCHANGED <<tag, reads, stdout, gotLyrics>>
       ELSE IF dryRun
            THEN /\ stdout' = stdout \o <<"", Msg("Lyrics text: ", "Lyrics text from file: ") \o embedLyrics>>
                 /\ Goto("save")
                 /\ UNCHANGED <<tag, reads, gotLyrics>>
            ELSE /\ reads' = Append(reads, embedLyrics)
                 /\ UNCHANGED stdout
                 /\ \/ /\ Fatal("FileReadError")
                       /\ UNCHANGED <<tag, gotLyrics>>
                    \/ \E b \in FileLyrics :
                          /\ gotLyrics' = b
                          /\ tag' = EmbedLyricsFrame(tag, embedLang, b)
                          /\ Goto("save")
    /\ UNCHANGED <<flags, file, requests, opens, saveCalls, artResp, lrcResp, gotImage>>

\* downloadLrc, and main() printing or embedding what it returned
LrcSearch ==
    /\ pc = "lrc_search"
    /\ requests' = Append(requests, lrclibUrl(Artist(tag), Title(tag)))
    /\ \/ /\ lrcResp' = [status |-> "request failed", results |-> <<>>]
          /\ Fatal("NetworkError")
          /\ UNCHANGED <<tag, stdout, gotLyrics>>
       \/ /\ netUp
          /\ lrcResp' = [status |-> "decode failed", results |-> <<>>]
          /\ Fatal("DecodeError")
          /\ UNCHANGED <<tag, stdout, gotLyrics>>
       \/ /\ netUp
          /\ \E rs \in LrcResults :
                LET r == FindLyrics(rs, Artist(tag), Title(tag))
                IN  /\ lrcResp' = [status |-> "decoded", results |-> rs]
                    /\ IF ~r.found
                       THEN /\ Fatal("NotFoundError")
                            /\ UNCHANGED <<tag, stdout, gotLyrics>>
                       ELSE /\ gotLyrics' = r.lyrics
                            /\ Goto("save")
                            /\ IF dryRun
                               THEN /\ stdout' = stdout \o <<"", r.lyrics>>
                                    /\ UNCHANGED tag
                               ELSE /\ tag' = EmbedLyricsFrame(tag, embedLang, r.lyrics)
                                    /\ UNCHANGED stdout
    /\ UNCHANGED <<flags, file, reads, opens, saveCalls, artResp, gotImage>>

(***************************************************************************)
(* Saving.                                                                 *)
(***************************************************************************)
SavedMsg == Msg("Image embedded successfully in ", "Embedded successfully in ") \o mp3File

SaveAlways ==
    /\ pc = "save"
    /\ saveCalls' = saveCalls + 1
    /\ file' = tag
    /\ stdout' = Append(stdout, SavedMsg)
    /\ pc' = "done"
    /\ outcome' = "success"
    /\ exitCode' = 0
    /\ UNCHANGED <<flags, tag, requests, reads, opens, artResp, lrcResp, gotImage, gotLyrics>>

Save ==
    /\ pc = "save"
    /\ IF dryRun
       THEN /\ pc' = "done"
            /\ outcome' = "success"
            /\ exitCode' = 0
            /\ UNCHANGED <<file, stdout, saveCalls>>
       ELSE /\ saveCalls' = saveCalls + 1
            /\ \/ /\ file' = tag
                  /\ stdout' = Append(stdout, SavedMsg)
                  /\ pc' = "done"
                  /\ outcome' = "success"
                  /\ exitCode' = 0
               \/ /\ Fatal("FileWriteError")
                  /\ UNCHANGED <<file, stdout>>
    /\ UNCHANGED <<flags, tag, requests, reads, opens, artResp, lrcResp, gotImage, gotLyrics>>

Next ==
    \/ ParseArgs
    \/ Open
    \/ PrintFrames
    \/ FixComment
    \/ EmbedImage
    \/ ArtSearch
    \/ ArtDownload
    \/ EmbedLyrics
    \/ LrcSearch
    \/ Save

Spec == Init /\ [][Next]_vars

(***************************************************************************)
(* Properties.                                                             *)
(***************************************************************************)
Range(q) == {q[i] : i \in 1..Len(q)}

HasPrefix(s, prefix) == Len(s) >= Len(prefix) /\ SubSeq(s, 1, Len(prefix)) = prefix

IsLrcRequest(u) == HasPrefix(u, "https://lrclib.net/api/search?q=")

IsArtSearchRequest(u) == HasPrefix(u, "https://itunes.apple.com/search?term=")

\* the positions in requests of the requests for the image itself
ImageRequests ==
    {k \in 1..Len(requests) : ~IsLrcRequest(requests[k]) /\ ~IsArtSearchRequest(requests[k])}

Failures == {"FileOpenError", "FileReadError", "NetworkError", "DecodeError", "NotFoundError"}

\* id3v2.Open returned a tag and the run went on with it
Opened == pc \notin {"parse", "open"} /\ outcome \notin {"usage", "FileOpenError"}

\* C1: a run in preview mode never calls save and leaves the stored tag as it
\* was; a run not in preview mode that meets no failure calls save exactly
\* once, after all frame mutations (the stored tag is the final tag in
\* memory, and no step follows the call).
C1_SaveDiscipline ==
    /\ dryRun => saveCalls = 0 /\ file = file0
    /\ (~dryRun /\ outcome = "success") => saveCalls = 1 /\ file = tag
    /\ saveCalls <= 1
    /\ saveCalls > 0 => pc = "done"

C1_Witness ==
    /\ dryRun /\ pc = "done" /\ outcome = "success"
    /\ embedImage # "" /\ embedLyrics # ""
    /\ tag # file0 /\ file = file0

\* C2 (as claimed): the lyrics source alone decides where the lyrics come from:
\* "auto" sends the lyrics request and embeds what it returned and never reads
\* a file named "auto"; a path sends no lyrics request and embeds the content
\* of that file; whatever the image source is.
C2_LyricsSourceDecides ==
    /\ embedLyrics = "auto" => "auto" \notin Range(reads)
    /\ embedLyrics \in LyricsPaths => \A k \in 1..Len(requests) : ~IsLrcRequest(requests[k])
    /\ (~dryRun /\ outcome = "success" /\ embedLyrics = "auto") =>
          /\ \E k \in 1..Len(requests) : IsLrcRequest(requests[k])
          /\ lrcResp.status = "decoded"
          /\ file["USLT"] = <<LyricsFrame(embedLang, gotLyrics)>>
    /\ (~dryRun /\ outcome = "success" /\ embedLyrics \in LyricsPaths) =>
          /\ embedLyrics \in Range(reads)
          /\ gotLyrics \in FileLyrics
          /\ file["USLT"] = <<LyricsFrame(embedLang, gotLyrics)>>

\* a run that ended because the image file could not be read
EndedAtImageRead ==
    outcome = "FileReadError" /\ embedImage \in ImagePaths /\ reads = <<embedImage>>

\* C3 (as claimed): when the image source or the lyrics source is "auto" and
\* every network request fails, a run that opened its file (and read its
\* image file, if it was given one) ends with a network error, and save is
\* never called.
C3_NoNetworkIsNetworkError ==
    (/\ pc = "done" /\ Opened /\ ~netUp /\ ~EndedAtImageRead
     /\ (embedImage = "auto" \/ embedLyrics = "auto"))
    => (outcome = "NetworkError" /\ saveCalls = 0)

\* C4 (as claimed): the comment step changes only the encoding: after it the
\* tag holds as many comment frames as before, each with the description,
\* text and language it had.
C4_CommentFieldsPreserved ==
    (Opened /\ pc \notin {"print", "comment"}) =>
        /\ Len(tag["COMM"]) = Len(file0["COMM"])
        /\ \A i \in 1..Len(tag["COMM"]) :
              /\ tag["COMM"][i].Description = file0["COMM"][i].Description
              /\ tag["COMM"][i].Text = file0["COMM"][i].Text
              /\ tag["COMM"][i].Language = file0["COMM"][i].Language

\* the record at position i is an exact match of the tag's artist and title
LrcMatch(i) ==
    /\ lrcResp.results[i].ArtistName = Artist(tag)
    /\ lrcResp.results[i].TrackName = Title(tag)

\* downloadLrc returned the synced lyrics of the first exact match
LrcFirstMatchReturned ==
    \E i \in 1..Len(lrcResp.results) :
        /\ LrcMatch(i)
        /\ \A j \in 1..(i - 1) : ~LrcMatch(j)
        /\ gotLyrics = lrcResp.results[i].SyncedLyrics
        /\ outcome \notin Failures

LrcNoMatch == \A i \in 1..Len(lrcResp.results) : ~LrcMatch(i)

\* C5 (as claimed): downloadLrc returns the synced lyrics of the first exact
\* match, and a NotFound error when no record matches or when the request or
\* the decoding fails.
C5_NotFoundOnEveryFailure ==
    /\ (lrcResp.status = "decoded" /\ ~LrcNoMatch) => LrcFirstMatchReturned
    /\ (lrcResp.status = "decoded" /\ LrcNoMatch) => outcome = "NotFoundError"
    /\ lrcResp.status \in {"request failed", "decode failed"} => outcome = "NotFoundError"

\* C5 (amended): downloadLrc returns the synced lyrics of the first record in
\* list order whose artist name and track name equal the inputs exactly; it
\* returns the NotFound error only when the decoded list holds no such record,
\* the request's error when the request fails and the decoder's error when
\* the decoding fails; in each of the three cases no lyrics are returned.
C5_FirstExactMatch ==
    /\ (lrcResp.status = "decoded" /\ ~LrcNoMatch) => LrcFirstMatchReturned
    /\ (lrcResp.status = "decoded" /\ LrcNoMatch) =>
          (outcome = "NotFoundError" /\ gotLyrics = None)
    /\ lrcResp.status = "request failed" => (outcome = "NetworkError" /\ gotLyrics = None)
    /\ lrcResp.status = "decode failed" => (outcome = "DecodeError" /\ gotLyrics = None)

C5_Witness ==
    /\ lrcResp.status = "decoded"
    /\ Len(lrcResp.results) = 2
    /\ lrcResp.results[1].ArtistName = "a"
    /\ LrcMatch(2)
    /\ gotLyrics = lrcResp.results[2].SyncedLyrics

\* r is u with exactly the first occurrence of old replaced by new
FirstOccurrenceReplaced(u, r, old, new) ==
    LET n == Len(old)
        at(s, i) == i + n - 1 <= Len(s) /\ SubSeq(s, i, i + n - 1) = old
    IN  IF \A i \in 1..Len(u) : ~at(u, i)
        THEN r = u
        ELSE \E i \in 1..Len(u) :
                /\ at(u, i)
                /\ \A j \in 1..(i - 1) : ~at(u, j)
                /\ Len(r) = Len(u) - n + Len(new)
                /\ SubSeq(r, 1, i - 1) = SubSeq(u, 1, i - 1)
                /\ SubSeq(r, i, i + Len(new) - 1) = new
                /\ SubSeq(r, i + Len(new), Len(r)) = SubSeq(u, i + n, Len(u))

\* C6: fetchAlbumArtURL sends its second request only after the search answer
\* decoded to a non-empty list, directly after the search request and once;
\* its URL is the first result's artwork URL with exactly the first
\* "100x100" replaced by "600x600"; with an empty list it ends with NotFound
\* and no second request.
C6_ArtworkRequest ==
    /\ \A k \in ImageRequests :
          /\ artResp.status = "decoded"
          /\ Len(artResp.results) > 0
          /\ k > 1 /\ IsArtSearchRequest(requests[k - 1])
          /\ FirstOccurrenceReplaced(artResp.results[1], requests[k], "100x100", "600x600")
    /\ Cardinality(ImageRequests) <= 1
    /\ (artResp.status = "decoded" /\ Len(artResp.results) = 0) =>
          (outcome = "NotFoundError" /\ ImageRequests = {} /\ pc = "done")

C6_Witness ==
    /\ artResp.status = "decoded"
    /\ Len(artResp.results) > 0
    /\ artResp.results[1] = "https://is1.example/100x100/100x100bb.jpg"
    /\ \E k \in ImageRequests :
          requests[k] = "https://is1.example/600x600/100x100bb.jpg"

\* C7: without the positional file argument the run prints the usage and
\* exits with a non-zero status; no file is opened or read and no request is
\* sent, whatever the flags are.
C7_MissingFile ==
    (mp3File = "" /\ pc # "parse") =>
        /\ pc = "done"
        /\ outcome = "usage"
        /\ exitCode # 0 /\ exitCode # -1
        /\ stdout = <<"Usage of mp3extra:">>
        /\ opens = 0 /\ reads = <<>> /\ requests = <<>>
        /\ saveCalls = 0 /\ file = file0

C7_Witness ==
    /\ mp3File = "" /\ pc = "done" /\ outcome = "usage"
    /\ embedImage = "auto" /\ embedLyrics = "auto" /\ ~dryRun

\* C8: a failure of opening, reading, requesting, decoding or looking up ends
\* the run at that step: the run is over with a non-zero status, save was
\* never called, the stored tag is what it was, and no file was read and no
\* request sent a second time.
C8_FailureIsFatal ==
    outcome \in Failures =>
        /\ pc = "done"
        /\ exitCode = 1
        /\ saveCalls = 0
        /\ file = file0
        /\ \A i, j \in 1..Len(requests) : requests[i] = requests[j] => i = j
        /\ \A i, j \in 1..Len(reads) : reads[i] = reads[j] => i = j

C8_Witness ==
    /\ outcome = "NotFoundError" /\ ~dryRun
    /\ gotImage # None
    /\ tag["APIC"] # file0["APIC"]
    /\ file = file0

\* C9: after a successful run, not in preview mode, with an image source, the
\* saved tag holds exactly one picture frame: a front cover, described "Cover
\* Art", with the bytes obtained from the source; and as long as no bytes
\* were obtained the picture frames of the opened tag are those of the file.
C9_OnePicture ==
    /\ (~dryRun /\ outcome = "success" /\ embedImage # "") =>
          /\ gotImage # None
          /\ Len(file["APIC"]) = 1
          /\ file["APIC"][1].PictureType = "PTFrontCover"
          /\ file["APIC"][1].Description = "Cover Art"
          /\ file["APIC"][1].Picture = gotImage
    /\ (Opened /\ gotImage = None) => tag["APIC"] = file0["APIC"]

C9_Witness ==
    /\ ~dryRun /\ outcome = "success" /\ embedImage = "auto"
    /\ Len(file0["APIC"]) = 2
    /\ Len(file["APIC"]) = 1

\* C10 (as claimed): a run changes only the frames asked for: without an image
\* source the picture frames, without a lyrics source the lyrics frames, and
\* in every run the number of comment frames and all other frames are in the
\* saved tag what they were in the opened tag.
C10_OnlyRequestedFrames ==
    (pc = "done" /\ Opened) =>
        /\ embedImage = "" => file["APIC"] = file0["APIC"]
        /\ embedLyrics = "" => file["USLT"] = file0["USLT"]
        /\ Len(file["COMM"]) = Len(file0["COMM"])
        /\ file["TIT2"] = file0["TIT2"]
        /\ file["TPE1"] = file0["TPE1"]

====
